---- MODULE Spec2Model ----
(***************************************************************************)
(* Session-based authentication glue (src/lib/auth.js and the server       *)
(* actions signup / login / auth / logout).                                *)
(*                                                                         *)
(* One browser (a cookie jar) sends requests to the server.  A request is  *)
(* executed in segments that are separated by the awaits of the code: the  *)
(* session store (Lucia on top of SQLite) executes one operation at a      *)
(* time, and the requests in Reqs interleave between their awaits.  The    *)
(* Set-Cookie headers of a request reach the jar when its response does.   *)
(*                                                                         *)
(* Strings are sequences of one-character strings, so that includes(),     *)
(* trim() and length are computed; "" is << >>.  A session ID, an opaque   *)
(* token, is the one-element sequence <<n>> for the n-th ID Lucia drew.    *)
(***************************************************************************)
EXTENDS Integers, Sequences, FiniteSets, TLC

\* ---------------------------------------------------------------- bounds
\* session IDs the store may hand out in one run
MaxSessions == 2
\* times one session's expiry may be extended (rolling renewal)
MaxRenewals == 1

\* The two request slots: the smallest number that lets requests race.
Reqs == {"r1", "r2"}

\* ------------------------------------------------------------- constants
\* password.trim().length < 8
MinPasswordLength == 8

\* null of the code (and "no value yet" of the model's own variables), a
\* record so that it compares with records
Null == [null |-> TRUE]

\* the value of a function that returns without a return statement
Undefined == [undefined |-> TRUE]

\* ---------------------------------------------------------------- inputs
Email1   == <<"a", "@", "b">>
Email2   == <<"c", "@", "d">>
BadEmail == <<"b", "a", "d">>
Emails   == {Email1, Email2, BadEmail}

\* 8 characters, 7 characters, and 9 characters of which trim() leaves 4
PwGood   == <<"l", "o", "n", "g", "p", "a", "s", "s">>
PwShort  == <<"s", "h", "o", "r", "t", "e", "r">>
PwPadded == <<" ", " ", "a", "b", "c", "d", " ", " ", " ">>
Passwords == {PwGood, PwShort, PwPadded}

\* ------------------------------------------------------- string helpers
\* String.prototype.includes for a one-character needle
includes(s, ch) == \E i \in 1..Len(s) : s[i] = ch

RECURSIVE trimStart(_)
trimStart(s) ==
    IF s # << >> /\ Head(s) = " " THEN trimStart(Tail(s)) ELSE s

RECURSIVE trimEnd(_)
trimEnd(s) ==
    IF s # << >> /\ s[Len(s)] = " " THEN trimEnd(SubSeq(s, 1, Len(s) - 1)) ELSE s

\* String.prototype.trim
trim(s) == trimEnd(trimStart(s))

\* ----------------------------------------------------------------- state
VARIABLES
    users,      \* the users table: a set of rows [id, email, password]
    sessions,   \* the sessions table: session number -> row or Null
    nextSid,    \* number of the next session ID Lucia will generate
    jar,        \* the browser's session cookie: Null (absent) or [value]
    pc,         \* per request: the segment it will execute next
    op,         \* per request: the entry point that was called
    sessionCookie,  \* per request: the cookie the request carries
    result,     \* per request: the value validateSession resolved to
    verifyRet,  \* per request: the value verifyAuth returned
    destroyRet, \* per request: the value destroySession returned
    formData,   \* per request: the fields submitted to signup / login
    uid,        \* per request: the user id passed to createAuthSession
    session,    \* per request: the session createAuthSession created
    log,        \* per request: store calls and cookie writes, in order
    outcome     \* per request: how the entry point ended

vars == <<users, sessions, nextSid, jar, pc, op, sessionCookie, result,
          verifyRet, destroyRet, formData, uid, session, log, outcome>>

storeVars == <<users, sessions, nextSid>>

SessionNums == 1..MaxSessions

\* the session ID token of session number n
SidOf(n) == <<n>>

\* createBlankSessionCookie().value
BlankValue == << >>

\* a slip: the cookie is made from the session's user, not from its ID
createSessionCookie_UserId(s) == <<"user", s.userId>>

\* lucia.createSessionCookie(session.id).value, for the session object s
createSessionCookie(s) == s.id

\* ------------------------------------------------------- password hasher
hashUserPassword(password) == <<"scrypt", password>>

verifyPassword(storedPassword, suppliedPassword) ==
    hashUserPassword(suppliedPassword) = storedPassword

\* ------------------------------------------------------------ user table
getUserByEmail(email) ==
    IF \E u \in users : u.email = email
    THEN CHOOSE u \in users : u.email = email
    ELSE Null

\* the row createUser inserts; its id is lastInsertRowid
NewUser(email, password) ==
    [id |-> Cardinality(users) + 1, email |-> email, password |-> password]

\* --------------------------------------------------------- session store
\* The session object Lucia hands out for row number n.
SessionObj(n, row, fresh) ==
    [id |-> SidOf(n), userId |-> row.userId, expiresAt |-> row.expiresAt,
     fresh |-> fresh]

\* the user object Lucia hands out (no user attributes are configured)
UserOf(userId) == [id |-> userId]

IsLive(n) == sessions[n] # Null /\ sessions[n].age # "expired"

\* the number of the row with ID sid, or 0 when the store has none
RowOf(sid) ==
    IF \E n \in SessionNums : SidOf(n) = sid /\ sessions[n] # Null
    THEN CHOOSE n \in SessionNums : SidOf(n) = sid
    ELSE 0

\* a slip: the expiry is extended on every validation, fresh or not
validateSession_AlwaysExtends(sid) ==
    LET n == RowOf(sid) IN
    IF n = 0
    THEN [pair |-> [user |-> Null, session |-> Null], store |-> sessions]
    ELSE IF ~IsLive(n)
    THEN [pair |-> [user |-> Null, session |-> Null],
          store |-> [sessions EXCEPT ![n] = Null]]
    ELSE LET row == [sessions[n] EXCEPT !.age = "young", !.expiresAt = @ + 1] IN
         [pair |-> [user |-> UserOf(row.userId),
                    session |-> SessionObj(n, row, sessions[n].age = "old")],
          store |-> [sessions EXCEPT ![n] = row]]

\* lucia.validateSession(sessionId): the pair it resolves to (pair) and the
\* sessions table it leaves (store).  An unknown ID gives the null pair; an
\* expired row is deleted and gives the null pair; a row past half of its
\* life has its expiry extended and is handed out flagged fresh.
validateSession(sid) ==
    LET n == RowOf(sid) IN
    IF n = 0
    THEN [pair |-> [user |-> Null, session |-> Null], store |-> sessions]
    ELSE IF ~IsLive(n)
    THEN [pair |-> [user |-> Null, session |-> Null],
          store |-> [sessions EXCEPT ![n] = Null]]
    ELSE IF sessions[n].age = "old"
    THEN LET row == [sessions[n] EXCEPT !.age = "young", !.expiresAt = @ + 1] IN
         [pair |-> [user |-> UserOf(row.userId),
                    session |-> SessionObj(n, row, TRUE)],
          store |-> [sessions EXCEPT ![n] = row]]
    ELSE [pair |-> [user |-> UserOf(sessions[n].userId),
                    session |-> SessionObj(n, sessions[n], FALSE)],
          store |-> sessions]

\* a slip: the session is not invalidated (line 129 left out)
invalidateSession_Noop(sid) == sessions

\* a slip: every session of the session's user is invalidated
\* (lucia.invalidateUserSessions in place of lucia.invalidateSession)
invalidateSession_AllOfUser(sid) ==
    LET n == RowOf(sid) IN
    IF n = 0 THEN sessions
    ELSE [m \in SessionNums |->
            IF sessions[m] # Null /\ sessions[m].userId = sessions[n].userId
            THEN Null ELSE sessions[m]]

\* lucia.invalidateSession(sessionId): the row is deleted
invalidateSession(sid) ==
    LET n == RowOf(sid) IN
    IF n = 0 THEN sessions ELSE [sessions EXCEPT ![n] = Null]

\* ------------------------------------------------------- request helpers
Event(fn, arg, ok) == [fn |-> fn, arg |-> arg, ok |-> ok]

IsWrite(e) == e.fn = "cookies.set"

IsOkWrite(e) == e.fn = "cookies.set" /\ e.ok

\* the session cookie the response of r carries: the last write that
\* succeeded, Null when there is none
ResponseCookie(r) ==
    LET w == SelectSeq(log[r], IsOkWrite) IN
    IF w = << >> THEN Null ELSE [value |-> w[Len(w)].arg]

NullPair == [user |-> Null, session |-> Null]

NoOutcome == [kind |-> "none", val |-> Null]
Returned(v) == [kind |-> "return", val |-> v]
Thrown(code) == [kind |-> "throw", val |-> [code |-> code]]
Redirected(to) == [kind |-> "redirect", val |-> [to |-> to]]

\* --------------------------------------------------------------- initial
Init ==
    /\ users = {}
    /\ sessions = [n \in SessionNums |-> Null]
    /\ nextSid = 1
    /\ jar \in {Null, [value |-> BlankValue]}
    /\ pc = [r \in Reqs |-> "idle"]
    /\ op = [r \in Reqs |-> "none"]
    /\ sessionCookie = [r \in Reqs |-> Null]
    /\ result = [r \in Reqs |-> Null]
    /\ verifyRet = [r \in Reqs |-> Null]
    /\ destroyRet = [r \in Reqs |-> Null]
    /\ formData = [r \in Reqs |-> Null]
    /\ uid = [r \in Reqs |-> 0]
    /\ session = [r \in Reqs |-> Null]
    /\ log = [r \in Reqs |-> << >>]
    /\ outcome = [r \in Reqs |-> NoOutcome]


\* ---------------------------------------------------------- verifyAuth
\* a slip: the empty value is not checked (lines 76-81 left out)
HasSessionId_NoEmptyCheck(cookie) == cookie # Null

\* verifyAuth, lines 66-82: whether the cookie read from the request leads
\* to a validation (a cookie is there and its value is not empty)
HasSessionId(cookie) == cookie # Null /\ cookie.value # BlankValue

\* a slip: the blank cookie is made and never written (the bug the comment
\* at lines 113-115 tells of)
verifyWrites_NoBlankSet(res, ok) ==
    IF res.session # Null /\ res.session.fresh
    THEN <<Event("cookies.set", createSessionCookie(res.session), ok)>>
    ELSE << >>

\* a slip: the renewal cookie is made and never written
verifyWrites_NoRenewalSet(res, ok) ==
    IF res.session = Null
    THEN <<Event("cookies.set", BlankValue, ok)>>
    ELSE << >>

\* verifyAuth, lines 92-112: the cookie writes of the try block for the
\* validation result res, when cookies().set answers ok.  A throw of the
\* first write leaves the block, so at most one write is attempted.
verifyWrites(res, ok) ==
    IF res.session # Null /\ res.session.fresh
    THEN <<Event("cookies.set", createSessionCookie(res.session), ok)>>
    ELSE IF res.session = Null
    THEN <<Event("cookies.set", BlankValue, ok)>>
    ELSE << >>

\* a slip: no try around the cookie writes, a throw of cookies().set
\* leaves verifyAuth
verifyEnd_Propagates(res, ok) ==
    IF ok \/ (res.session # Null /\ ~res.session.fresh)
    THEN Returned(res)
    ELSE Thrown("COOKIE")

\* verifyAuth, lines 92-117: how verifyAuth ends for the validation result
\* res when cookies().set answers ok: the catch swallows, res is returned
verifyEnd(res, ok) == Returned(res)

\* a slip: logout hands back what destroySession returned, and navigates
\* only when the session was terminated
logoutEnd_ReturnsError(d) ==
    IF d.kind = "throw" THEN d
    ELSE IF d.val = Undefined THEN Redirected("/")
    ELSE Returned(d.val)

\* logout, lines 80-83, once destroySession has ended as d (a return or
\* a throw): logout has no catch, and redirects after a return
logoutEnd(d) == IF d.kind = "throw" THEN d ELSE Redirected("/")

\* a slip: Unauthorized is thrown, not returned
destroyCheck_Throws(ret) ==
    IF ret.session = Null
    THEN Thrown("Unauthorized!")
    ELSE NoOutcome

\* destroySession, lines 122-127: how destroySession ends at once when the
\* verification returned ret; NoOutcome when it goes on to invalidate
destroyCheck(ret) ==
    IF ret.session = Null
    THEN Returned([error |-> "Unauthorized!"])
    ELSE NoOutcome

\* What the caller of verifyAuth does once verifyAuth has ended as v: a
\* page takes the outcome as its own; destroySession (called by logout)
\* checks the session, lines 122-127.
AfterVerify(r, o, v) ==
    IF v.kind = "throw"
    THEN /\ pc' = [pc EXCEPT ![r] = "done"]
         /\ outcome' = [outcome EXCEPT ![r] = v]
         /\ UNCHANGED <<verifyRet, destroyRet>>
    ELSE /\ verifyRet' = [verifyRet EXCEPT ![r] = v.val]
         /\ IF o = "verifyAuth"
            THEN /\ pc' = [pc EXCEPT ![r] = "done"]
                 /\ outcome' = [outcome EXCEPT ![r] = v]
                 /\ destroyRet' = destroyRet
            ELSE LET d == destroyCheck(v.val) IN
                 IF d.kind = "none"
                 THEN /\ pc' = [pc EXCEPT ![r] = "invalidateSession"]
                      /\ UNCHANGED <<outcome, destroyRet>>
                 ELSE /\ pc' = [pc EXCEPT ![r] = "done"]
                      /\ outcome' = [outcome EXCEPT ![r] = logoutEnd(d)]
                      /\ destroyRet' = IF d.kind = "return"
                                       THEN [destroyRet EXCEPT ![r] = d.val]
                                       ELSE destroyRet

\* a slip: the blank cookie is written before the validation is awaited
VerifyAuthBegin_WritesFirst(r) ==
    /\ pc[r] = "idle"
    /\ \E o \in {"verifyAuth", "logout"} :
        /\ op' = [op EXCEPT ![r] = o]
        /\ sessionCookie' = [sessionCookie EXCEPT ![r] = jar]
        /\ IF HasSessionId(jar)
           THEN /\ pc' = [pc EXCEPT ![r] = "validateSession"]
                /\ log' = [log EXCEPT ![r] = Append(@, Event("cookies.set", BlankValue, TRUE))]
                /\ UNCHANGED <<verifyRet, destroyRet, outcome>>
           ELSE /\ AfterVerify(r, o, Returned(NullPair))
                /\ log' = log
    /\ UNCHANGED <<storeVars, jar, result, formData, uid, session>>

\* A page (verifyAuth) or the logout action is requested: verifyAuth reads
\* the request's cookie, lines 61-84, up to the await of validateSession.
VerifyAuthBegin(r) ==
    /\ pc[r] = "idle"
    /\ \E o \in {"verifyAuth", "logout"} :
        /\ op' = [op EXCEPT ![r] = o]
        /\ sessionCookie' = [sessionCookie EXCEPT ![r] = jar]
        /\ IF HasSessionId(jar)
           THEN /\ pc' = [pc EXCEPT ![r] = "validateSession"]
                /\ UNCHANGED <<verifyRet, destroyRet, outcome>>
           ELSE AfterVerify(r, o, Returned(NullPair))
    /\ UNCHANGED <<storeVars, jar, result, formData, uid, session, log>>

\* The store executes lucia.validateSession(sessionId), line 84.
ValidateSession(r) ==
    /\ pc[r] = "validateSession"
    /\ LET sid == sessionCookie[r].value
           v == validateSession(sid) IN
        /\ result' = [result EXCEPT ![r] = v.pair]
        /\ sessions' = v.store
        /\ log' = [log EXCEPT ![r] = Append(@, Event("validateSession", sid, TRUE))]
    /\ pc' = [pc EXCEPT ![r] = "verifyWrite"]
    /\ UNCHANGED <<users, nextSid, jar, op, sessionCookie, verifyRet, destroyRet, formData, uid,
                   session, outcome>>

\* a slip: the cookie of the request is renewed whatever the validation
\* answered
VerifyAuthEnd_RenewsCookie(r) ==
    /\ pc[r] = "verifyWrite"
    /\ \E ok \in BOOLEAN :
        /\ log' = [log EXCEPT ![r] =
                      Append(@, Event("cookies.set", sessionCookie[r].value, ok))]
        /\ AfterVerify(r, op[r], verifyEnd(result[r], ok))
    /\ UNCHANGED <<storeVars, jar, op, sessionCookie, result, formData, uid, session>>

\* verifyAuth after the await, lines 92-117: the try block and the return.
VerifyAuthEnd(r) ==
    /\ pc[r] = "verifyWrite"
    /\ \E ok \in BOOLEAN :
        /\ log' = [log EXCEPT ![r] = @ \o verifyWrites(result[r], ok)]
        /\ AfterVerify(r, op[r], verifyEnd(result[r], ok))
    /\ UNCHANGED <<storeVars, jar, op, sessionCookie, result, formData, uid, session>>

\* ------------------------------------------------------- destroySession
\* The store executes lucia.invalidateSession(session.id), line 129.
InvalidateSession(r) ==
    /\ pc[r] = "invalidateSession"
    /\ LET sid == verifyRet[r].session.id IN
        /\ sessions' = invalidateSession(sid)
        /\ log' = [log EXCEPT ![r] = Append(@, Event("invalidateSession", sid, TRUE))]
    /\ pc' = [pc EXCEPT ![r] = "destroyWrite"]
    /\ UNCHANGED <<users, nextSid, jar, op, sessionCookie, result, verifyRet, destroyRet,
                   formData, uid, session, outcome>>

\* destroySession after the await, lines 131-137: the blank cookie is
\* written outside any try, so a throw of cookies().set leaves
\* destroySession; otherwise it returns nothing.
DestroyWrite(r) ==
    /\ pc[r] = "destroyWrite"
    /\ \E ok \in BOOLEAN :
        /\ log' = [log EXCEPT ![r] = Append(@, Event("cookies.set", BlankValue, ok))]
        /\ destroyRet' = IF ok THEN [destroyRet EXCEPT ![r] = Undefined]
                         ELSE destroyRet
        /\ outcome' = [outcome EXCEPT ![r] =
                          logoutEnd(IF ok THEN Returned(Undefined)
                                    ELSE Thrown("COOKIE"))]
    /\ pc' = [pc EXCEPT ![r] = "done"]
    /\ UNCHANGED <<storeVars, jar, op, sessionCookie, result, verifyRet, formData, uid,
                   session>>

\* ------------------------------------------------------ signup / login
\* a slip: the length of the password is taken without trim()
signupErrors_NoTrim(email, password) ==
    LET bad == (IF ~includes(email, "@") THEN {"email"} ELSE {})
               \cup (IF Len(password) < MinPasswordLength
                     THEN {"password"} ELSE {}) IN
    [f \in bad |-> IF f = "email"
                   THEN "Please enter a valid email address"
                   ELSE "Password must be at least 8 characters long"]

\* a slip: the email is not checked for "@" (lines 14-16 left out)
signupErrors_NoEmailCheck(email, password) ==
    LET bad == IF Len(trim(password)) < MinPasswordLength
               THEN {"password"} ELSE {} IN
    [f \in bad |-> "Password must be at least 8 characters long"]

\* signup, lines 12-20: the field-keyed errors of the submitted fields
signupErrors(email, password) ==
    LET bad == (IF ~includes(email, "@") THEN {"email"} ELSE {})
               \cup (IF Len(trim(password)) < MinPasswordLength
                     THEN {"password"} ELSE {}) IN
    [f \in bad |-> IF f = "email"
                   THEN "Please enter a valid email address"
                   ELSE "Password must be at least 8 characters long"]

\* a slip: the catch block rethrows whatever it caught
signupCatch_Rethrows(code) == Thrown(code)

\* a slip: the catch block takes every error for the unique email
signupCatch_CatchAll(code) ==
    Returned([errors |-> [email |-> "This email already exists."]])

\* signup, lines 33-41: the catch block, for the error code caught
signupCatch(code) ==
    IF code = "SQLITE_CONSTRAINT_UNIQUE"
    THEN Returned([errors |-> [email |-> "This email already exists."]])
    ELSE Thrown(code)

\* a slip: the wrong password gets a message of its own
loginErrors_Distinct(existingUser, password) ==
    IF existingUser = Null
    THEN [errors |-> [email |-> "Please check your email or password"]]
    ELSE IF ~verifyPassword(existingUser.password, password)
    THEN [errors |-> [password |-> "Wrong password"]]
    ELSE Null

\* login, lines 49-67: the errors login returns for the row found for the
\* email (existingUser) and the submitted password, Null when it goes on
loginErrors(existingUser, password) ==
    IF existingUser = Null
    THEN [errors |-> [email |-> "Please check your email or password"]]
    ELSE IF ~verifyPassword(existingUser.password, password)
    THEN [errors |-> [email |-> "Please check your email or password"]]
    ELSE Null

\* signup(prevState, formData), lines 8-31, up to the await in
\* createAuthSession.  createUser is synchronous: it inserts the row, or
\* throws on the unique email, or throws for another reason (storeOk).
Signup(r, email, password) ==
    /\ op' = [op EXCEPT ![r] = "signup"]
    /\ formData' = [formData EXCEPT ![r] = [email |-> email, password |-> password]]
    /\ IF DOMAIN signupErrors(email, password) # {}
       THEN /\ outcome' = [outcome EXCEPT ![r] =
                              Returned([errors |-> signupErrors(email, password)])]
            /\ pc' = [pc EXCEPT ![r] = "done"]
            /\ UNCHANGED <<users, uid, log>>
       ELSE \E storeOk \in BOOLEAN :
            LET row == NewUser(email, hashUserPassword(password))
                code == IF ~storeOk THEN "SQLITE_ERROR"
                        ELSE IF getUserByEmail(email) # Null
                        THEN "SQLITE_CONSTRAINT_UNIQUE" ELSE "" IN
            /\ log' = [log EXCEPT ![r] = Append(@, Event("createUser", email, code = ""))]
            /\ IF code = ""
               THEN /\ users' = users \cup {row}
                    /\ uid' = [uid EXCEPT ![r] = row.id]
                    /\ pc' = [pc EXCEPT ![r] = "createSession"]
                    /\ outcome' = outcome
               ELSE /\ outcome' = [outcome EXCEPT ![r] = signupCatch(code)]
                    /\ pc' = [pc EXCEPT ![r] = "done"]
                    /\ UNCHANGED <<users, uid>>
    /\ UNCHANGED <<sessions, nextSid, jar, sessionCookie, result, verifyRet, destroyRet, session>>

\* login(prevState, formData), lines 45-69, up to the await in
\* createAuthSession.
Login(r, email, password) ==
    /\ op' = [op EXCEPT ![r] = "login"]
    /\ formData' = [formData EXCEPT ![r] = [email |-> email, password |-> password]]
    /\ log' = [log EXCEPT ![r] = Append(@, Event("getUserByEmail", email, TRUE))]
    /\ LET existingUser == getUserByEmail(email) IN
       IF loginErrors(existingUser, password) # Null
       THEN /\ outcome' = [outcome EXCEPT ![r] =
                              Returned(loginErrors(existingUser, password))]
            /\ pc' = [pc EXCEPT ![r] = "done"]
            /\ uid' = uid
       ELSE /\ uid' = [uid EXCEPT ![r] = existingUser.id]
            /\ pc' = [pc EXCEPT ![r] = "createSession"]
            /\ outcome' = outcome
    /\ UNCHANGED <<storeVars, jar, sessionCookie, result, verifyRet, destroyRet, session>>

\* auth(mode, prevState, formData), lines 73-78
Auth(r) ==
    /\ pc[r] = "idle"
    /\ \E mode \in {"login", "signup"}, email \in Emails, password \in Passwords :
        IF mode = "login"
        THEN Login(r, email, password)
        ELSE Signup(r, email, password)

\* ---------------------------------------------------- createAuthSession
\* what ends login / signup when createAuthSession threw code: signup's
\* catch looks at the code, login has no catch
authCatch(o, code) == IF o = "signup" THEN signupCatch(code) ELSE Thrown(code)

\* The store executes lucia.createSession(userId, {}), line 39.
CreateSession(r) ==
    /\ pc[r] = "createSession"
    /\ nextSid <= MaxSessions
    /\ LET row == [userId |-> uid[r], age |-> "young", expiresAt |-> 0] IN
        /\ sessions' = [sessions EXCEPT ![nextSid] = row]
        /\ session' = [session EXCEPT ![r] = SessionObj(nextSid, row, TRUE)]
    /\ nextSid' = nextSid + 1
    /\ log' = [log EXCEPT ![r] = Append(@, Event("createSession", <<uid[r]>>, TRUE))]
    /\ pc' = [pc EXCEPT ![r] = "setCookie"]
    /\ UNCHANGED <<users, jar, op, sessionCookie, result, verifyRet, destroyRet, formData, uid, outcome>>

\* createAuthSession after the await, lines 43-58, and the redirect of
\* login (line 70) or signup (line 32) that follows it.
CreateCookie(r) ==
    /\ pc[r] = "setCookie"
    /\ \E ok \in BOOLEAN :
        /\ log' = [log EXCEPT ![r] = Append(@, Event("cookies.set", createSessionCookie(session[r]), ok))]
        /\ outcome' = [outcome EXCEPT ![r] =
                          IF ok THEN Redirected("/training")
                          ELSE authCatch(op[r], "COOKIE")]
    /\ pc' = [pc EXCEPT ![r] = "done"]
    /\ UNCHANGED <<storeVars, jar, op, sessionCookie, result, verifyRet, destroyRet, formData, uid,
                   session>>

\* ------------------------------------------------- store and transport
\* the store call request r is waiting for, as [fn, arg]
PendingCall(r) ==
    IF pc[r] = "validateSession"
    THEN [fn |-> "validateSession", arg |-> sessionCookie[r].value]
    ELSE IF pc[r] = "invalidateSession"
    THEN [fn |-> "invalidateSession", arg |-> verifyRet[r].session.id]
    ELSE [fn |-> "createSession", arg |-> <<uid[r]>>]

\* An awaited store call rejects (the store is unavailable): nothing is
\* written, and the error leaves every function that awaits it, none of
\* which catches it but signup.
StoreFails(r) ==
    /\ pc[r] \in {"validateSession", "invalidateSession", "createSession"}
    /\ log' = [log EXCEPT ![r] = Append(@, Event(PendingCall(r).fn, PendingCall(r).arg, FALSE))]
    /\ outcome' = [outcome EXCEPT ![r] = authCatch(op[r], "SQLITE_ERROR")]
    /\ pc' = [pc EXCEPT ![r] = "done"]
    /\ UNCHANGED <<storeVars, jar, op, sessionCookie, result, verifyRet, destroyRet, formData, uid,
                   session>>

\* the browser's jar after a response that carries cookie c (Null: none):
\* the blank cookie (empty value, Max-Age 0) deletes the cookie
ApplyCookie(c) ==
    IF c = Null THEN jar
    ELSE IF c.value = BlankValue THEN Null
    ELSE c

\* The response of r reaches the browser; the slot is free again.  When
\* the request ended in an error the Set-Cookie headers may be lost.
Respond(r) ==
    /\ pc[r] = "done"
    /\ \E delivered \in BOOLEAN :
        /\ (outcome[r].kind # "throw") => delivered
        /\ jar' = IF delivered THEN ApplyCookie(ResponseCookie(r)) ELSE jar
    /\ pc' = [pc EXCEPT ![r] = "idle"]
    /\ op' = [op EXCEPT ![r] = "none"]
    /\ sessionCookie' = [sessionCookie EXCEPT ![r] = Null]
    /\ result' = [result EXCEPT ![r] = Null]
    /\ verifyRet' = [verifyRet EXCEPT ![r] = Null]
    /\ destroyRet' = [destroyRet EXCEPT ![r] = Null]
    /\ formData' = [formData EXCEPT ![r] = Null]
    /\ uid' = [uid EXCEPT ![r] = 0]
    /\ session' = [session EXCEPT ![r] = Null]
    /\ log' = [log EXCEPT ![r] = << >>]
    /\ outcome' = [outcome EXCEPT ![r] = NoOutcome]
    /\ UNCHANGED storeVars

\* Time passes for session row n: it gets past half of its life ...
Age(n) ==
    /\ sessions[n] # Null
    /\ sessions[n].age = "young"
    /\ sessions[n].expiresAt < MaxRenewals
    /\ sessions' = [sessions EXCEPT ![n].age = "old"]
    /\ UNCHANGED <<users, nextSid, jar, pc, op, sessionCookie, result,
                   verifyRet, destroyRet, formData, uid, session, log, outcome>>

\* ... and past its expiry.
Expire(n) ==
    /\ IsLive(n)
    /\ sessions' = [sessions EXCEPT ![n].age = "expired"]
    /\ UNCHANGED <<users, nextSid, jar, pc, op, sessionCookie, result,
                   verifyRet, destroyRet, formData, uid, session, log, outcome>>

\* no request is in flight
Quiet == \A r \in Reqs : pc[r] = "idle"

\* The browser sends one request at a time: it waits for a response
\* before it sends the next request.
Next ==
    \/ \E r \in Reqs :
        \/ Quiet /\ VerifyAuthBegin(r)
        \/ Quiet /\ Auth(r)
        \/ ValidateSession(r)
        \/ VerifyAuthEnd(r)
        \/ InvalidateSession(r)
        \/ DestroyWrite(r)
        \/ CreateSession(r)
        \/ CreateCookie(r)
        \/ StoreFails(r)
        \/ Respond(r)
    \/ \E n \in SessionNums : Age(n) \/ Expire(n)

Spec == Init /\ [][Next]_vars

\* the continuation of request r after an await, or the rejection of the
\* awaited call
Continue(r) ==
    \/ ValidateSession(r)
    \/ VerifyAuthEnd(r)
    \/ InvalidateSession(r)
    \/ DestroyWrite(r)
    \/ CreateSession(r)
    \/ CreateCookie(r)
    \/ StoreFails(r)

\* Every awaited call settles (it resolves or rejects) and the event loop
\* then runs the continuation: no request in flight waits for ever.
SpecLive == Spec /\ \A r \in Reqs : WF_vars(Continue(r))

\* The browser sends requests that overlap (two tabs): the server
\* interleaves them between their awaits.
NextRace ==
    \/ \E r \in Reqs :
        \/ VerifyAuthBegin(r)
        \/ Auth(r)
        \/ ValidateSession(r)
        \/ VerifyAuthEnd(r)
        \/ InvalidateSession(r)
        \/ DestroyWrite(r)
        \/ CreateSession(r)
        \/ CreateCookie(r)
        \/ StoreFails(r)
        \/ Respond(r)
    \/ \E n \in SessionNums : Age(n) \/ Expire(n)

SpecRace == Init /\ [][NextRace]_vars

\* ================================================================ claims
\* what the store knows of the session with ID sid
IsLiveId(sid) == RowOf(sid) # 0 /\ IsLive(RowOf(sid))

\* the browser holds no session cookie, or one with the empty value
Cleared(c) == c = Null \/ c.value = BlankValue

\* verifyAuth has returned in request r, after a validation
VerifyValidated(r) == verifyRet[r] # Null /\ result[r] # Null

\* the part of the log of r that verifyAuth wrote: destroySession adds to
\* the log from its invalidateSession call on
VerifyLog(r) ==
    LET later == {i \in 1..Len(log[r]) : log[r][i].fn = "invalidateSession"} IN
    IF later = {} THEN log[r]
    ELSE SubSeq(log[r], 1, (CHOOSE i \in later : \A j \in later : i <= j) - 1)

\* the cookie writes verifyAuth attempted in request r
VerifyWrites(r) == SelectSeq(VerifyLog(r), IsWrite)

\* C1 as the spec states it: in every reachable state the cookie the
\* browser holds is blank or absent, or the ID of a session that is live
\* in the store.
C1_CookieLiveOrBlank ==
    Cleared(jar) \/ IsLiveId(jar.value)

\* C1, amended: in every reachable state the cookie the browser holds is
\* blank or absent, or the ID of a session the store has created; that
\* session is live, or has expired or been invalidated since.
C1_CookieIssuedOrBlank ==
    Cleared(jar) \/ \E n \in 1..(nextSid - 1) : jar.value = SidOf(n)

\* the browser holds the ID of a session that is no longer live
C1_Witness ==
    ~Cleared(jar) /\ ~IsLiveId(jar.value)

C3_FreshWritesOneRenewal ==
    \A r \in Reqs :
        (VerifyValidated(r) /\ result[r].session # Null /\ result[r].session.fresh) =>
            /\ Len(VerifyWrites(r)) = 1
            /\ VerifyWrites(r)[1].arg = result[r].session.id
            /\ VerifyWrites(r)[1].arg = sessionCookie[r].value
            /\ VerifyWrites(r)[1].arg # BlankValue
            /\ verifyRet[r] = result[r]
            /\ verifyRet[r].user = [id |-> result[r].session.userId]

\* a verifyAuth call has returned a fresh session and renewed its cookie
C3_Witness ==
    \E r \in Reqs :
        /\ VerifyValidated(r) /\ result[r].session # Null /\ result[r].session.fresh
        /\ op[r] = "verifyAuth" /\ pc[r] = "done"
        /\ ResponseCookie(r) = [value |-> sessionCookie[r].value]

\* C4: a verifyAuth call on a request with no session cookie, or with one
\* whose value is empty, returns {user: null, session: null}, writes no
\* cookie and does not query the store.
C4_NoCookieNoEffect ==
    \A r \in Reqs :
        (op[r] \in {"verifyAuth", "logout"} /\ pc[r] # "idle"
            /\ Cleared(sessionCookie[r])) =>
            /\ verifyRet[r] = NullPair
            /\ result[r] = Null
            /\ log[r] = << >>
            /\ (op[r] = "verifyAuth" => outcome[r] = Returned(NullPair))

\* a verifyAuth call has returned for a cookie with the empty value
C4_Witness ==
    \E r \in Reqs :
        /\ op[r] = "verifyAuth" /\ pc[r] = "done"
        /\ sessionCookie[r] = [value |-> BlankValue]
        /\ outcome[r] = Returned(NullPair)

\* a write of verifyAuth in request r failed
VerifyWriteFailed(r) ==
    \E i \in 1..Len(VerifyWrites(r)) : ~VerifyWrites(r)[i].ok

\* verifyAuth has returned a session that is valid and not flagged fresh
ValidNotFresh(r) ==
    /\ VerifyValidated(r)
    /\ result[r].session # Null
    /\ ~result[r].session.fresh

\* C5: a verifyAuth call that finds its session valid and not flagged fresh
\* writes no cookie and returns the validated pair, and the validation
\* leaves the store such that the next validation of the same ID gives the
\* same pair again: consecutive calls return the same {user, session}.
C5_ValidNotFreshRepeats ==
    /\ [](\A r \in Reqs :
            ValidNotFresh(r) =>
                /\ VerifyWrites(r) = << >>
                /\ verifyRet[r] = result[r])
    /\ [][\A r \in Reqs :
            (/\ pc[r] = "validateSession"
             /\ pc'[r] = "verifyWrite"
             /\ result'[r].session # Null
             /\ ~result'[r].session.fresh) =>
                (validateSession(sessionCookie[r].value).pair)' = result'[r]]_vars

\* a verifyAuth call has returned a session that was renewed before and
\* is not fresh now, and has written no cookie
C5_Witness ==
    \E r \in Reqs :
        /\ ValidNotFresh(r)
        /\ op[r] = "verifyAuth" /\ pc[r] = "done"
        /\ result[r].session.expiresAt > 0
        /\ ResponseCookie(r) = Null

\* C6: when the cookie write that verifyAuth attempts fails, verifyAuth
\* still returns the pair that the validation produced: nothing is thrown.
C6_WriteFailureSwallowed ==
    \A r \in Reqs :
        VerifyWriteFailed(r) =>
            /\ verifyRet[r] = result[r]
            /\ (op[r] = "verifyAuth" => outcome[r] = Returned(result[r]))

\* a verifyAuth call has returned a fresh session though its renewal
\* write failed
C6_Witness ==
    \E r \in Reqs :
        /\ VerifyWriteFailed(r)
        /\ op[r] = "verifyAuth" /\ pc[r] = "done"
        /\ result[r].session # Null
        /\ outcome[r] = Returned(result[r])

\* verifyAuth, called for a page, has found the session of r invalid
VerifyInvalid(r) ==
    /\ op[r] = "verifyAuth" /\ pc[r] = "done"
    /\ outcome[r].kind = "return"
    /\ outcome[r].val.session = Null

\* C7 as the spec states it: every verifyAuth outcome that finds the
\* session invalid returns a null user and leaves the browser with its
\* session cookie cleared.
C7_InvalidAlwaysCleared ==
    \A r \in Reqs :
        VerifyInvalid(r) =>
            /\ outcome[r].val.user = Null
            /\ Cleared(ApplyCookie(ResponseCookie(r)))

\* C7, amended: every verifyAuth outcome that finds the session invalid
\* returns a null user; the browser's cookie is cleared afterwards unless
\* the blank cookie write failed, and then the browser keeps the cookie it
\* sent.
C7_InvalidClearedUnlessWriteFails ==
    \A r \in Reqs :
        VerifyInvalid(r) =>
            /\ outcome[r].val.user = Null
            /\ IF VerifyWriteFailed(r)
               THEN ApplyCookie(ResponseCookie(r)) = sessionCookie[r]
               ELSE Cleared(ApplyCookie(ResponseCookie(r)))

\* verifyAuth found an unknown ID, its blank write failed, and the browser
\* keeps the stale cookie
C7_Witness ==
    \E r \in Reqs :
        /\ VerifyInvalid(r)
        /\ VerifyWriteFailed(r)
        /\ ~Cleared(ApplyCookie(ResponseCookie(r)))

\* the invalidateSession calls of request r
Invalidations(r) == SelectSeq(log[r], LAMBDA e : e.fn = "invalidateSession")

\* C8: destroySession, when the verification yields no session, returns
\* {error: "Unauthorized!"} and does not throw, and calls no invalidation.
C8_NoSessionUnauthorized ==
    \A r \in Reqs :
        (op[r] = "logout" /\ verifyRet[r] # Null /\ verifyRet[r].session = Null) =>
            /\ destroyRet[r] = [error |-> "Unauthorized!"]
            /\ outcome[r].kind # "throw"
            /\ Invalidations(r) = << >>

\* destroySession has returned Unauthorized for an ID that the store no
\* longer knows
C8_Witness ==
    \E r \in Reqs :
        /\ op[r] = "logout" /\ pc[r] = "done"
        /\ ~Cleared(sessionCookie[r])
        /\ result[r] = NullPair
        /\ destroyRet[r] = [error |-> "Unauthorized!"]

\* C9: destroySession with a live session invalidates that session ID and
\* then writes the blank cookie; when it has returned without an error
\* value the session no longer validates and the response cookie is blank.
C9_DestroyInvalidatesAndBlanks ==
    \A r \in Reqs :
        /\ (op[r] = "logout" /\ pc[r] = "destroyWrite") =>
            /\ Invalidations(r) = <<Event("invalidateSession", verifyRet[r].session.id, TRUE)>>
            /\ validateSession(verifyRet[r].session.id).pair.session = Null
        /\ (op[r] = "logout" /\ destroyRet[r] = Undefined) =>
            /\ Invalidations(r) = <<Event("invalidateSession", verifyRet[r].session.id, TRUE)>>
            /\ log[r] = VerifyLog(r) \o Invalidations(r)
                            \o <<Event("cookies.set", BlankValue, TRUE)>>
            /\ validateSession(verifyRet[r].session.id).pair.session = Null
            /\ ResponseCookie(r) = [value |-> BlankValue]

\* destroySession has returned for a session that was live
C9_Witness ==
    \E r \in Reqs :
        /\ op[r] = "logout" /\ pc[r] = "done"
        /\ destroyRet[r] = Undefined
        /\ outcome[r] = Redirected("/")

\* login has returned errors in request r
LoginFailed(r) == op[r] = "login" /\ pc[r] = "done" /\ outcome[r].kind = "return"

\* the email that request r submitted to login
LoginEmail(r) == log[r][1].arg

\* C10: every failed login returns the same value, {errors: {email: "Please
\* check your email or password"}}, for an email that is not registered and
\* for a registered email with a wrong password.
C10_LoginErrorsIdentical ==
    \A r \in Reqs :
        LoginFailed(r) =>
            outcome[r].val =
                [errors |-> [email |-> "Please check your email or password"]]

\* login has failed for a registered email (the password was wrong)
C10_Witness ==
    \E r \in Reqs :
        /\ LoginFailed(r)
        /\ getUserByEmail(LoginEmail(r)) # Null

\* signup was called in request r and has run its synchronous part
SignupCalled(r) == op[r] = "signup" /\ pc[r] # "idle"

\* signup has returned the error message msg for the form field f
SignupReports(r, f, msg) ==
    /\ pc[r] = "done"
    /\ outcome[r].kind = "return"
    /\ f \in DOMAIN outcome[r].val.errors
    /\ outcome[r].val.errors[f] = msg

PasswordTooShort(r) ==
    SignupReports(r, "password", "Password must be at least 8 characters long")

EmailInvalid(r) ==
    SignupReports(r, "email", "Please enter a valid email address")

\* the positions of s that hold something else than a blank
NonBlank(s) == {i \in 1..Len(s) : s[i] # " "}

\* the number of characters of s from its first to its last non-blank one
CoreLen(s) ==
    IF NonBlank(s) = {} THEN 0
    ELSE (CHOOSE i \in NonBlank(s) : \A j \in NonBlank(s) : j <= i)
         - (CHOOSE i \in NonBlank(s) : \A j \in NonBlank(s) : i <= j) + 1

\* C11 as the spec states it: signup reports the password error exactly
\* when the submitted password has fewer than 8 characters, and the email
\* error exactly when the email holds no "@".
C11_PasswordErrorIffShort ==
    \A r \in Reqs :
        SignupCalled(r) =>
            /\ PasswordTooShort(r) <=> Len(formData[r].password) < 8
            /\ EmailInvalid(r) <=> ~includes(formData[r].email, "@")

\* C11, amended: signup reports the password error exactly when the
\* submitted password, without the blanks at its start and at its end, has
\* fewer than 8 characters, and the email error exactly when the email
\* holds no "@".
C11_PasswordErrorIffTrimmedShort ==
    \A r \in Reqs :
        SignupCalled(r) =>
            /\ PasswordTooShort(r) <=> CoreLen(formData[r].password) < 8
            /\ EmailInvalid(r) <=> \A i \in 1..Len(formData[r].email) :
                                        formData[r].email[i] # "@"

\* signup has rejected, for its length, a password of 9 characters
C11_Witness ==
    \E r \in Reqs :
        /\ SignupCalled(r)
        /\ PasswordTooShort(r)
        /\ Len(formData[r].password) >= 8

\* the fields that request r submitted to signup fail the validation
FieldsInvalid(r) ==
    \/ CoreLen(formData[r].password) < 8
    \/ \A i \in 1..Len(formData[r].email) : formData[r].email[i] # "@"

\* C12: when signup fails the field validation it returns the field-keyed
\* errors and nothing else happens: no store call (no user row, no session
\* row), no cookie write, no navigation; the tables and the browser's
\* cookie are as they were, also after the response.
C12_InvalidFieldsNoEffect ==
    /\ [](\A r \in Reqs :
            (SignupCalled(r) /\ FieldsInvalid(r)) =>
                /\ pc[r] = "done"
                /\ outcome[r].kind = "return"
                /\ DOMAIN outcome[r].val = {"errors"}
                /\ DOMAIN outcome[r].val.errors # {}
                /\ DOMAIN outcome[r].val.errors \subseteq {"email", "password"}
                /\ log[r] = << >>
                /\ session[r] = Null
                /\ ResponseCookie(r) = Null)
    /\ [][\A r \in Reqs :
            /\ (pc[r] = "idle" /\ SignupCalled(r)' /\ FieldsInvalid(r)') =>
                    (<<users, sessions, nextSid, jar>>' = <<users, sessions, nextSid, jar>>)
            /\ (SignupCalled(r) /\ FieldsInvalid(r) /\ pc'[r] = "idle") =>
                    (<<users, sessions, nextSid, jar>>' = <<users, sessions, nextSid, jar>>)]_vars

\* signup has returned both errors, while a user is registered and the
\* browser holds a session cookie
C12_Witness ==
    \E r \in Reqs :
        /\ SignupCalled(r) /\ FieldsInvalid(r)
        /\ DOMAIN outcome[r].val.errors = {"email", "password"}
        /\ users # {}
        /\ ~Cleared(jar)

\* the fields of r pass the validation and its email belonged to a user
\* row before signup was called: createUser was called and made no row
RegisteredBefore(r) ==
    /\ SignupCalled(r) /\ ~FieldsInvalid(r)
    /\ getUserByEmail(formData[r].email) # Null
    /\ ~log[r][1].ok

\* the store was unavailable to request r
StoreUnavailable(r) == outcome[r] = Thrown("SQLITE_ERROR")

\* C13: signup with fields that pass the validation and an email that is
\* registered already returns {errors: {email: "This email already
\* exists."}} as a value (the store answering the insert), and makes no
\* user row, no session row, no cookie write and no navigation.
C13_DuplicateEmailReturnsError ==
    /\ [](\A r \in Reqs :
            (RegisteredBefore(r) /\ ~StoreUnavailable(r)) =>
                /\ pc[r] = "done"
                /\ outcome[r] =
                     Returned([errors |-> [email |-> "This email already exists."]])
                /\ log[r] = <<Event("createUser", formData[r].email, FALSE)>>
                /\ session[r] = Null
                /\ ResponseCookie(r) = Null)
    /\ [][\A r \in Reqs :
            /\ (pc[r] = "idle" /\ RegisteredBefore(r)') =>
                    (<<users, sessions, nextSid, jar>>' = <<users, sessions, nextSid, jar>>)
            /\ (RegisteredBefore(r) /\ pc'[r] = "idle" /\ ~StoreUnavailable(r)) =>
                    (<<users, sessions, nextSid, jar>>' = <<users, sessions, nextSid, jar>>)]_vars

\* signup has returned "This email already exists." for a registered email
C13_Witness ==
    \E r \in Reqs :
        /\ RegisteredBefore(r)
        /\ outcome[r] = Returned([errors |-> [email |-> "This email already exists."]])
        /\ Cardinality(users) = 1

\* request r is a call of logout
LogoutCalled(r) == op[r] = "logout"

\* destroySession of request r has returned (nothing, or Unauthorized)
DestroyReturned(r) == destroyRet[r] # Null

\* C14 as the spec states it: every logout call eventually navigates to
\* "/".
C14_LogoutAlwaysNavigates ==
    \A r \in Reqs : LogoutCalled(r) ~> (outcome[r] = Redirected("/"))

\* C14: every logout call ends; it navigates to "/" whenever
\* destroySession returns (the session terminated, or Unauthorized
\* returned); when destroySession throws (the store rejects the
\* validation or the invalidation, or the blank cookie cannot be set) the
\* error leaves logout and there is no navigation.
C14_LogoutNavigatesUnlessThrown ==
    /\ \A r \in Reqs : LogoutCalled(r) ~> (LogoutCalled(r) /\ pc[r] = "done")
    /\ [](\A r \in Reqs :
            (LogoutCalled(r) /\ pc[r] = "done") =>
                /\ DestroyReturned(r) => outcome[r] = Redirected("/")
                /\ ~DestroyReturned(r) => outcome[r].kind = "throw"
                /\ DestroyReturned(r) =>
                     \/ destroyRet[r] = [error |-> "Unauthorized!"]
                          /\ verifyRet[r].session = Null
                     \/ destroyRet[r] = Undefined
                          /\ verifyRet[r].session # Null)

\* logout has navigated to "/" after destroySession returned Unauthorized
C14_Witness ==
    \E r \in Reqs :
        /\ LogoutCalled(r) /\ pc[r] = "done"
        /\ destroyRet[r] = [error |-> "Unauthorized!"]
        /\ outcome[r] = Redirected("/")

\* request r is a call of login or signup that has ended
AuthEnded(r) == pc[r] = "done" /\ op[r] \in {"login", "signup"}

\* the session rows request r has created
SessionsCreated(r) ==
    {i \in 1..Len(log[r]) : log[r][i].fn = "createSession" /\ log[r][i].ok}

\* login or signup of request r has succeeded
AuthSucceeded(r) == AuthEnded(r) /\ outcome[r] = Redirected("/training")

\* C15: every successful login or signup has created exactly one session
\* row, owned by the user who authenticated, has written a cookie with
\* that session's ID after it, and navigates to "/training"; every
\* session row belongs to one user, and a call creates a session row only
\* when it succeeds (as many rows created as successful events).
C15_OneSessionPerSuccess ==
    /\ \A r \in Reqs : AuthSucceeded(r) =>
        /\ Cardinality(SessionsCreated(r)) = 1
        /\ session[r] # Null
        /\ session[r].userId = uid[r]
        /\ \E u \in users : u.id = uid[r] /\ u.email = formData[r].email
        /\ RowOf(session[r].id) # 0
        /\ sessions[RowOf(session[r].id)].userId = uid[r]
        /\ log[r][Len(log[r])] = Event("cookies.set", session[r].id, TRUE)
        /\ log[r][Len(log[r]) - 1] = Event("createSession", <<uid[r]>>, TRUE)
    /\ \A n \in SessionNums : sessions[n] # Null =>
        Cardinality({u \in users : u.id = sessions[n].userId}) = 1
    /\ \A r \in Reqs : AuthEnded(r) =>
        Cardinality(SessionsCreated(r)) = (IF AuthSucceeded(r) THEN 1 ELSE 0)

\* request r is a call of verifyAuth, by a page or by destroySession
VerifyCalled(r) == op[r] \in {"verifyAuth", "logout"}

\* the validation of request r has completed: the store has answered
\* lucia.validateSession for the ID of the request's cookie
ValidationCompleted(r) ==
    /\ result[r] # Null
    /\ log[r] # << >>
    /\ log[r][1] = Event("validateSession", sessionCookie[r].value, TRUE)

\* C16: within one verifyAuth call no renewal or blank cookie write is
\* attempted before the store's validation for that call has completed:
\* a write is added to the log only by the step after the validation, it
\* follows the validation in the log, and which cookie it carries is
\* decided by the validation result alone.
C16_ValidationBeforeWrite ==
    /\ [](\A r \in Reqs : VerifyCalled(r) =>
            /\ pc[r] = "validateSession" => log[r] = << >>
            /\ \A i \in 1..Len(VerifyLog(r)) : IsWrite(VerifyLog(r)[i]) =>
                /\ i = 2
                /\ ValidationCompleted(r)
                /\ result[r].session = Null => VerifyLog(r)[i].arg = BlankValue
                /\ result[r].session # Null =>
                     /\ result[r].session.fresh
                     /\ VerifyLog(r)[i].arg = result[r].session.id)
    /\ [][\A r \in Reqs :
            (VerifyCalled(r)' /\ Len(VerifyWrites(r)') > Len(VerifyWrites(r))) =>
                /\ pc[r] = "verifyWrite"
                /\ ValidationCompleted(r)
                /\ result'[r] = result[r]]_vars

\* a verifyAuth call has written a cookie after its validation
C16_Witness ==
    \E r \in Reqs :
        /\ VerifyCalled(r) /\ pc[r] = "done"
        /\ ValidationCompleted(r)
        /\ Len(VerifyWrites(r)) = 1
        /\ VerifyLog(r)[2].ok

\* the store rejected lucia.createSession of request r
CreateSessionFailed(r) ==
    /\ op[r] \in {"login", "signup"}
    /\ log[r] # << >>
    /\ log[r][Len(log[r])] = Event("createSession", <<uid[r]>>, FALSE)

\* C17: when the store write of createAuthSession fails, the error leaves
\* createAuthSession and login / signup (it is thrown, not returned as a
\* value), no session cookie is written and there is no navigation to
\* "/training".
C17_CreateFailurePropagates ==
    \A r \in Reqs : CreateSessionFailed(r) =>
        /\ pc[r] = "done"
        /\ outcome[r] = Thrown("SQLITE_ERROR")
        /\ session[r] = Null
        /\ SelectSeq(log[r], IsWrite) = << >>
        /\ ResponseCookie(r) = Null
        /\ ApplyCookie(ResponseCookie(r)) = jar

\* signup has thrown the store's error of createSession
C17_Witness ==
    \E r \in Reqs :
        /\ CreateSessionFailed(r) /\ op[r] = "signup"
        /\ outcome[r].kind = "throw"

\* the renewal cookie writes verifyAuth attempted in request r
RenewalWrites(r) ==
    LET IsRenewal(e) == IsWrite(e) /\ e.arg # BlankValue IN
    IF VerifyCalled(r) THEN SelectSeq(VerifyLog(r), IsRenewal) ELSE << >>

\* destroySession of request r has invalidated the session with ID sid
InvalidatedBy(r, sid) ==
    /\ op[r] = "logout"
    /\ \E i \in 1..Len(log[r]) : log[r][i] = Event("invalidateSession", sid, TRUE)

\* destroySession of request r has written its blank cookie
LogoutBlanked(r) ==
    /\ op[r] = "logout" /\ pc[r] = "done"
    /\ log[r][Len(log[r])] = Event("cookies.set", BlankValue, TRUE)

\* the row of session number n was issued and is deleted
Deleted(n) == n < nextSid /\ sessions[n] = Null

\* C18 as the spec states it: once a destroySession call has invalidated
\* a session and written its blank cookie, no concurrent verifyAuth that
\* validated the session before writes a renewal cookie for it (the write
\* that leaves the client holding the cookie of the invalidated session).
C18_NoRenewalAfterLogout ==
    [][\A r1, r2 \in Reqs : \A n \in SessionNums :
        (r1 # r2 /\ InvalidatedBy(r2, SidOf(n)) /\ LogoutBlanked(r2)) =>
            ~(/\ Len(RenewalWrites(r1)') > Len(RenewalWrites(r1))
              /\ RenewalWrites(r1)'[Len(RenewalWrites(r1)')].arg = SidOf(n))]_vars

\* C18: under any interleaving of concurrent requests, once a
\* destroySession call has invalidated a session its row is gone for
\* good, every later validation of its ID answers {user: null, session:
\* null}, and a request writes a renewal cookie only for the session its
\* own validation found valid and fresh (so a verifyAuth that validated
\* before the invalidation can still renew the cookie after the logout's
\* blank cookie, and only such a verifyAuth can).
C18_InvalidatedNeverValidatesAgain ==
    /\ [](\A r \in Reqs : \A i \in 1..Len(RenewalWrites(r)) :
            /\ ValidationCompleted(r)
            /\ result[r].session # Null
            /\ result[r].session.fresh
            /\ RenewalWrites(r)[i].arg = result[r].session.id)
    /\ [][\A r \in Reqs :
            /\ (pc[r] = "invalidateSession" /\ pc'[r] = "destroyWrite") =>
                    ~IsLiveId(verifyRet[r].session.id)'
            /\ (pc[r] = "validateSession" /\ pc'[r] = "verifyWrite"
                    /\ ~IsLiveId(sessionCookie[r].value)) =>
                    result'[r] = NullPair]_vars
    /\ [][\A n \in SessionNums : Deleted(n) => Deleted(n)']_vars

\* a verifyAuth call has renewed the cookie of a session that a concurrent
\* logout has invalidated and blanked
C18_Witness ==
    \E r1, r2 \in Reqs : \E n \in SessionNums :
        /\ r1 # r2
        /\ InvalidatedBy(r2, SidOf(n)) /\ LogoutBlanked(r2)
        /\ pc[r1] = "done" /\ op[r1] = "verifyAuth"
        /\ Len(RenewalWrites(r1)) = 1
        /\ RenewalWrites(r1)[1] = Event("cookies.set", SidOf(n), TRUE)
        /\ Deleted(n)

\* the session rows other than the one the cookie of request r names
OtherSessions(r) ==
    {n \in SessionNums :
        ~(HasSessionId(sessionCookie[r]) /\ SidOf(n) = sessionCookie[r].value)}

\* request r takes a step
Steps(r) == pc'[r] # pc[r]

\* C19: destroySession and login change only the session they act on:
\* no step of a logout request changes a session row other than the one
\* its cookie names (which every other session of the same user and of
\* other users survives, as valid as it was), and no step of a login or
\* signup request changes a session row that exists already; neither
\* changes a user row.
C19_OnlyOwnSessionChanged ==
    [][\A r \in Reqs :
        /\ (Steps(r) /\ op[r] = "logout") =>
            /\ \A n \in OtherSessions(r) : sessions'[n] = sessions[n]
            /\ users' = users /\ nextSid' = nextSid
        /\ (Steps(r) /\ op'[r] = "logout") =>
            \A n \in OtherSessions(r)' : sessions'[n] = sessions[n]
        /\ (Steps(r) /\ (op[r] = "login" \/ op'[r] = "login")) =>
            /\ \A n \in SessionNums : sessions[n] # Null => sessions'[n] = sessions[n]
            /\ users' = users]_vars

\* logout has terminated one session of a user who has another, live one
C19_Witness ==
    \E r \in Reqs : \E n \in SessionNums :
        /\ LogoutCalled(r) /\ pc[r] = "done"
        /\ destroyRet[r] = Undefined
        /\ SidOf(n) # sessionCookie[r].value
        /\ IsLive(n)
        /\ sessions[n].userId = verifyRet[r].user.id

\* the user rows request r has created
UsersCreated(r) ==
    {i \in 1..Len(log[r]) : log[r][i].fn = "createUser" /\ log[r][i].ok}

\* C20: signup is all-or-nothing on the user table: a signup call that
\* has ended without navigating to "/training" (it returned errors, or an
\* error left it) has created no user row, and "This email already
\* exists." is returned only when the email was registered before the
\* call.
C20_SignupAllOrNothing ==
    \A r \in Reqs : (op[r] = "signup" /\ pc[r] = "done") =>
        /\ outcome[r] # Redirected("/training") => UsersCreated(r) = {}
        /\ SignupReports(r, "email", "This email already exists.") =>
                RegisteredBefore(r)

====
